---------------------------- MODULE Spec2Model ----------------------------
(***************************************************************************)
(* Model of the Aikido -> GitLab merge-request commenter:                  *)
(*   src/aikido_comment_mr.py  (main)                                      *)
(*   src/lib/aikido.py         (fetch, merge, filter, render)              *)
(*   src/lib/git.py            (note lookup, update, create)               *)
(*                                                                         *)
(* A Python str is modelled as a sequence of chunks (TLA+ strings): a      *)
(* chunk is a single character where the code works on characters (the     *)
(* access token, the issue type) and a literal piece of an f-string        *)
(* elsewhere.  Concatenation is \o and (x in s) is contiguous containment. *)
(***************************************************************************)
EXTENDS Integers, Sequences, FiniteSets, TLC

(***************************************************************************)
(* Bounds of the model.                                                    *)
(***************************************************************************)
MaxRuns == 2
MaxPages == 2
MaxGroups == 2
MaxIssues == 3
MaxNotes == 2
MaxTokenLen == 3

(***************************************************************************)
(* Python values.                                                          *)
(***************************************************************************)
\* Python's None, as returned by dict.get(key) on an absent key.
None == <<"<None>">>

\* A key that the JSON object does not hold.
Absent == <<"<absent>">>

\* dict.get(key, default) on a field of a JSON object.
Get(v, default) == IF v = Absent THEN default ELSE v

\* dict.get(key) on a field of a JSON object.
Get0(v) == Get(v, None)

\* str(i) for the small integers used as ids.
Str(i) == <<"0", "1", "2", "3", "4", "5", "6", "7", "8", "9", "10", "11", "12">>[i + 1]

\* s[i:] starts with sub at position i.
MatchAt(sub, s, i) ==
    /\ i + Len(sub) - 1 <= Len(s)
    /\ \A k \in 1..Len(sub) : s[i + k - 1] = sub[k]

\* Python's (sub in s) on two strings.
In(sub, s) == \E i \in 1..(Len(s) - Len(sub) + 1) : MatchAt(sub, s, i)

\* s.count(sub) for a non-empty sub whose occurrences cannot overlap.
Count(sub, s) == Cardinality({i \in 1..(Len(s) - Len(sub) + 1) : MatchAt(sub, s, i)})

\* str.split(sep) on a string of characters: the list of the segments.
RECURSIVE SplitFrom(_, _, _, _, _)
SplitFrom(s, sep, i, cur, acc) ==
    IF i > Len(s) THEN Append(acc, cur)
    ELSE IF s[i] = sep THEN SplitFrom(s, sep, i + 1, <<>>, Append(acc, cur))
    ELSE SplitFrom(s, sep, i + 1, Append(cur, s[i]), acc)

Split(s, sep) == SplitFrom(s, sep, 1, <<>>, <<>>)

\* str.replace(a, b) for single characters a and b.
Replace(s, a, b) == [i \in 1..Len(s) |-> IF s[i] = a THEN b ELSE s[i]]

LowerCase == <<"a", "b", "c", "d", "e", "f", "g", "h", "i", "j", "k", "l", "m",
               "n", "o", "p", "q", "r", "s", "t", "u", "v", "w", "x", "y", "z">>

UpperCase == <<"A", "B", "C", "D", "E", "F", "G", "H", "I", "J", "K", "L", "M",
               "N", "O", "P", "Q", "R", "S", "T", "U", "V", "W", "X", "Y", "Z">>

IsCased(c) == \E k \in 1..26 : c = LowerCase[k] \/ c = UpperCase[k]

ToUpper(c) ==
    IF \E k \in 1..26 : c = LowerCase[k]
    THEN UpperCase[CHOOSE k \in 1..26 : c = LowerCase[k]] ELSE c

ToLower(c) ==
    IF \E k \in 1..26 : c = UpperCase[k]
    THEN LowerCase[CHOOSE k \in 1..26 : c = UpperCase[k]] ELSE c

\* str.title(): a cased character is upper-cased when it follows an uncased
\* character (or starts the string) and lower-cased otherwise.
Title(s) ==
    [i \in 1..Len(s) |->
        IF i = 1 \/ ~IsCased(s[i - 1]) THEN ToUpper(s[i]) ELSE ToLower(s[i])]

\* The characters of a literal.
LeakedSecret == <<"l", "e", "a", "k", "e", "d", "_", "s", "e", "c", "r", "e", "t">>

Sast == <<"s", "a", "s", "t">>


(***************************************************************************)
(* Python dicts keep insertion order: a dict is a sequence of entries with *)
(* distinct keys.                                                          *)
(***************************************************************************)
DictKeys(d) == {d[i].key : i \in 1..Len(d)}

DictGet(d, k, default) ==
    IF k \in DictKeys(d)
    THEN d[CHOOSE i \in 1..Len(d) : d[i].key = k].value
    ELSE default

\* dict.update({k: v}): replaces the value in place, or appends the key.
DictUpdate(d, k, v) ==
    IF k \in DictKeys(d)
    THEN [i \in 1..Len(d) |-> IF d[i].key = k THEN [key |-> k, value |-> v] ELSE d[i]]
    ELSE Append(d, [key |-> k, value |-> v])

(***************************************************************************)
(* JSON objects of the Aikido API.  A field the object does not hold is    *)
(* Absent; issue_list is attached by the merge (has_issue_list).           *)
(***************************************************************************)
MkGroup(id, type, description, severity) ==
    [id |-> id, type |-> type, description |-> description, severity |-> severity,
     has_issue_list |-> FALSE, issue_list |-> <<>>]

\* The {} that the merge defaults to for a detail id with no parent group.
EmptyGroup ==
    [id |-> 0, type |-> Absent, description |-> Absent, severity |-> Absent,
     has_issue_list |-> FALSE, issue_list |-> <<>>]

MkIssue(file, package, surface) ==
    [affected_file |-> file, affected_package |-> package, attack_surface |-> surface]

DockerContainer == <<"docker_container">>

\* The issue kinds the export endpoint serves for group g.
FileIssue(g, k) == MkIssue(<<"src/g", Str(g), "/f", Str(k), ".py">>, <<"pkg", Str(g)>>, <<"backend">>)

PackageIssue(g) == MkIssue(Absent, <<"pkg", Str(g)>>, <<"backend">>)

DockerIssue(g) == MkIssue(<<>>, <<"img", Str(g)>>, DockerContainer)

BareIssue(g) == MkIssue(Absent, Absent, Absent)

(***************************************************************************)
(* src/lib/aikido.py: get_issue_group_ids, merge, filter.                  *)
(***************************************************************************)
GetIssueGroupIds(issue_groups) == [i \in 1..Len(issue_groups) |-> issue_groups[i].id]

RECURSIVE GroupsToDict(_, _, _)
GroupsToDict(issue_groups, i, d) ==
    IF i > Len(issue_groups) THEN d
    ELSE GroupsToDict(issue_groups, i + 1,
                      DictUpdate(d, issue_groups[i].id, issue_groups[i]))

RECURSIVE AttachDetails(_, _, _)
AttachDetails(issue_details, i, d) ==
    IF i > Len(issue_details) THEN d
    ELSE LET issue_group_id == issue_details[i].key
             issue_group == DictGet(d, issue_group_id, EmptyGroup)
             updated == [issue_group EXCEPT !.has_issue_list = TRUE,
                                            !.issue_list = issue_details[i].value]
         IN AttachDetails(issue_details, i + 1, DictUpdate(d, issue_group_id, updated))

MergeIssueDetailsWithIssueGroups(issue_groups, issue_details) ==
    AttachDetails(issue_details, 1, GroupsToDict(issue_groups, 1, <<>>))

\* A filter that also lets medium through.
SeverityKeptWithMedium(severity) == severity \in {<<"high">>, <<"critical">>, <<"medium">>}

SeverityKept(severity) == severity \in {<<"high">>, <<"critical">>}

IsHighOrCritical(entry) == SeverityKept(Get0(entry.value.severity))

FilterHighAndCritical(merged_issue_list) == SelectSeq(merged_issue_list, IsHighOrCritical)

(***************************************************************************)
(* src/lib/aikido.py: generate_table.                                      *)
(***************************************************************************)
\* os.getenv("CI_PROJECT_URL") and os.getenv("CI_COMMIT_REF_NAME").
ProjectUrl == "https://gitlab.example.com/grp/proj"

SourceBranchName == "feature"

TableHeader ==
    <<"|Issue description|File location or affected package|Severity|Link|\n|---|---|---|---|\n">>

NoIssuesBanner == <<"\n# SAST scan results\nNo high or critical issues found in codebase">>

DetailsOpen == "<details><summary>view more files</summary>"

DetailsClose == "</details>"

DockerfileLink == <<"[Dockerfile](", ProjectUrl, "/-/blob/", SourceBranchName, "/Dockerfile)">>

FileLink(affected_file) ==
    <<"[">> \o affected_file \o <<"](", ProjectUrl, "/-/blob/", SourceBranchName, "/">>
        \o affected_file \o <<")">>

\* One pass of the loop over issue_group["issue_list"].  stop is the break
\* (or the exception), raised the TypeError of "None in file_list".  The
\* backtick of the Markdown is written <bt>.
IssueStep(st, issue) ==
    LET description ==
            IF st.description = <<>> \/ st.description = None
            THEN Get(issue.affected_package, <<>>) ELSE st.description
        affected_file == Get(issue.affected_file, <<>>)
        attack_surface == Get(issue.attack_surface, <<>>)
        affected_package == Get0(issue.affected_package)
        s1 == [st EXCEPT !.description = description]
    IN  IF affected_file = None \/ affected_file = <<>>
        THEN IF attack_surface = DockerContainer
             THEN [s1 EXCEPT !.file_list = @ \o DockerfileLink, !.stop = TRUE]
             ELSE IF affected_package = None
                  THEN [s1 EXCEPT !.raised = TRUE, !.stop = TRUE]
                  ELSE IF In(affected_package, s1.file_list)
                       THEN s1
                       ELSE [s1 EXCEPT !.file_list =
                                @ \o <<"Package: <bt>">> \o affected_package \o <<"<bt><br>">>]
        ELSE [s1 EXCEPT !.file_list = @ \o FileLink(affected_file)
                                        \o (IF st.file_count = 2 THEN <<DetailsOpen>> ELSE <<>>),
                        !.file_count = @ + 1]

RECURSIVE IssueLoop(_, _, _)
IssueLoop(issue_list, i, st) ==
    IF i > Len(issue_list) \/ st.stop THEN st
    ELSE IssueLoop(issue_list, i + 1, IssueStep(st, issue_list[i]))

\* The file/location cell and the description of one group.
FileCell(issue_group) ==
    LET st == IssueLoop(issue_group.issue_list, 1,
                        [description |-> Get(issue_group.description, <<>>),
                         file_list |-> <<>>, file_count |-> 0,
                         stop |-> FALSE, raised |-> FALSE])
    IN  IF st.raised THEN st
        ELSE [st EXCEPT !.file_list =
                 @ \o (IF st.file_count >= 2 THEN <<DetailsClose>> ELSE <<>>)]

SeverityCell(severity) ==
    CASE severity = <<"critical">> -> <<"$<bt>\textcolor{red}{\text{critical}}<bt>$">>
      [] severity = <<"high">> -> <<"$<bt>\textcolor{orange}{\text{high}}<bt>$">>
      [] severity = <<"medium">> -> <<"$<bt>\textcolor{yellow}{\text{medium}}<bt>$">>
      [] OTHER -> severity

IssueLink(repo_id, issue_group_id) ==
    <<"https://app.aikido.dev/repositories/", Str(repo_id), "?sidebarIssue=",
      Str(issue_group_id)>>

\* issue_group.get("type", "").replace("_", " ").title()
IssueType(issue_group) == Title(Replace(Get(issue_group.type, <<>>), "_", " "))

\* if issue_type == "leaked_secret": continue
SkipsRow(issue_group) == IssueType(issue_group) = LeakedSecret

RowEnd == "|\n"

TableRow(issue_group_id, issue_group, cell, repo_id) ==
    <<"|">> \o cell.description \o <<"|">> \o cell.file_list \o <<"|">>
        \o SeverityCell(Get0(issue_group.severity)) \o <<"|">>
        \o IssueLink(repo_id, issue_group_id) \o <<RowEnd>>

\* The loop over high_and_critical_issues.items(): the table so far, or the
\* exception that leaves the loop.
RECURSIVE TableLoop(_, _, _, _)
TableLoop(issues, repo_id, i, table) ==
    IF i > Len(issues) THEN [raised |-> FALSE, value |-> table]
    ELSE IF SkipsRow(issues[i].value) THEN TableLoop(issues, repo_id, i + 1, table)
    ELSE LET cell == FileCell(issues[i].value)
         IN  IF cell.raised THEN [raised |-> TRUE, value |-> <<>>]
             ELSE TableLoop(issues, repo_id, i + 1,
                            table \o TableRow(issues[i].key, issues[i].value, cell, repo_id))

CountLine(n) == <<"\n# SAST scan results\n", Str(n), " issues found in codebase\n">>

GenerateTable(high_and_critical_issues, repo_id) ==
    IF Len(high_and_critical_issues) = 0
    THEN [raised |-> FALSE, value |-> NoIssuesBanner]
    ELSE LET body == TableLoop(high_and_critical_issues, repo_id, 1, TableHeader)
         IN  IF body.raised THEN body
             ELSE [raised |-> FALSE,
                   value |-> CountLine(Len(high_and_critical_issues))
                             \o <<"<details><summary>SAST scan results</summary>\n\n">>
                             \o body.value \o <<"\n</details>">>]

(***************************************************************************)
(* src/lib/aikido.py: get_code_repositories, get_repo_id and the export.   *)
(***************************************************************************)
\* results_per_page
ResultsPerPage == 10

\* A repository of the listing; its position in the listing is its id.
Repo(id) ==
    [id |-> id,
     name |-> IF id = 2 THEN <<"grp/", "proj">>
              ELSE IF id = 3 THEN <<"grp/", "proj", "-fork">>
              ELSE <<"grp/", "other">>]

\* The body of page p when the server serves page_lens[p + 1] items on it; a
\* page past the last one is empty.
ServerPage(page_lens, p) ==
    LET n == IF p + 1 <= Len(page_lens) THEN page_lens[p + 1] ELSE 0
    IN  [i \in 1..n |-> Repo(p * ResultsPerPage + i)]

\* repos = repos + response.json()
AccumulateRepos(repos, json) == repos \o json

\* A loop that stops on an empty page only.
IsLastPageWhenEmpty(json) == Len(json) = 0

\* if len(response.json()) < results_per_page: break
IsLastPage(json) == Len(json) < ResultsPerPage

\* get_repo_id: the id of the first repository whose name contains repo_name;
\* 0 stands for the "Unable to find repo ID!" exception.
GetRepoIdOf(repos, repo_name) ==
    LET hits == {i \in 1..Len(repos) : In(repo_name, repos[i].name)}
    IN  IF hits = {} THEN 0
        ELSE repos[CHOOSE i \in hits : \A j \in hits : i <= j].id

\* A worker that keys its result by a variable shared between the threads.
ExportIssueDetailsSharedKey(issue_group_id, json) == <<[key |-> 1, value |-> json]>>

\* export_issue_details: return {issue_group_id: response.json()}
ExportIssueDetails(issue_group_id, json) == <<[key |-> issue_group_id, value |-> json]>>

\* results.update(future.result())
RECURSIVE DictUpdateAll(_, _, _)
DictUpdateAll(d, other, i) ==
    IF i > Len(other) THEN d
    ELSE DictUpdateAll(DictUpdate(d, other[i].key, other[i].value), other, i + 1)

(***************************************************************************)
(* src/aikido_comment_mr.py and src/lib/git.py: the comment.               *)
(***************************************************************************)
Marker == "Security tooling scan results"

\* base_message, with the pipeline's environment values.
BaseMessage ==
    <<"# ", Marker, "\n\n|   |   |\n|---|---|\n|Pipeline ID|[", "4711", "](",
      "https://gitlab.example.com/grp/proj/-/pipelines/4711", ")|\n|Commit sha1|",
      "c0ffee", "|\n\n">>

Placeholder == <<"\nFailed to generate Aikido table\n">>

\* message = f"{base_message}\n\n{aikido_table}"
ComposeMessage(aikido_table) == BaseMessage \o <<"\n\n">> \o aikido_table

\* A handler written as a bare except, which also takes SystemExit.
MainCatchesAll(exception) == TRUE

\* A handler that takes SystemExit alone.
MainCatchesOnlyExit(exception) == exception = "SystemExit"

\* The exception classes that (except Exception) in main catches: a
\* SystemExit (raised by exit(1)) derives from BaseException only.
MainCatches(exception) == exception # "SystemExit"

\* if ":" in access_token: access_token = access_token.split(":")[1]
PrivateToken(access_token) ==
    IF In(<<":">>, access_token) THEN Split(access_token, ":")[2] ELSE access_token

HttpsPrefix == "https://"

\* requests raises MissingSchema for a URL without a scheme.
HasScheme(url) == Len(url) > 0 /\ url[1] \in {HttpsPrefix, "http://"}

NotesPath(project_id, mr_iid) ==
    <<"/api/v4/projects/", Str(project_id), "/merge_requests/", Str(mr_iid), "/notes">>

\* The URL mr_already_has_note requests.
ListUrl(gitlab_url, project_id, mr_iid) == gitlab_url \o NotesPath(project_id, mr_iid)

\* The URL update_note requests.
UpdateUrl(gitlab_url, project_id, mr_iid, note_id) ==
    gitlab_url \o NotesPath(project_id, mr_iid) \o <<"/", Str(note_id)>>

\* The URL add_note_to_mr posts to.
CreateUrl(gitlab_url, project_id, mr_iid) ==
    (IF ~In(<<HttpsPrefix>>, gitlab_url) THEN <<HttpsPrefix>> \o gitlab_url ELSE gitlab_url)
        \o NotesPath(project_id, mr_iid)

HasMarker(body) == In(<<Marker>>, body)

\* A search that compares the body with the marker instead of searching it.
FindNoteByEquality(notes) ==
    LET hits == {i \in 1..Len(notes) : notes[i].body = <<Marker>>}
    IN  IF hits = {} THEN 0
        ELSE notes[CHOOSE i \in hits : \A j \in hits : i <= j].id

\* A search without the early return: the last note with the marker wins.
FindNoteLast(notes) ==
    LET hits == {i \in 1..Len(notes) : In(<<Marker>>, notes[i].body)}
    IN  IF hits = {} THEN 0
        ELSE notes[CHOOSE i \in hits : \A j \in hits : i >= j].id

\* The loop of mr_already_has_note over a 200 response: the id of the first
\* note whose body holds the marker, or False (0).
FindNote(notes) ==
    LET hits == {i \in 1..Len(notes) : HasMarker(notes[i].body)}
    IN  IF hits = {} THEN 0
        ELSE notes[CHOOSE i \in hits : \A j \in hits : i <= j].id

\* if note_id: (a note id of 0 and False are falsy)
Truthy(note_id) == note_id # 0

(***************************************************************************)
(* State.                                                                  *)
(***************************************************************************)
VARIABLES
    pc,                \* the position of the process in main and its callees
    run,               \* how many times the script has been started
    exit_code,         \* the exit code of the process, -1 while it runs
    raised,            \* the stage whose exception ended or degraded the run
    args,              \* gitlab_url, gitlab_token, repo_id, mr_iid, repo_name
    aikido,            \* what the Aikido API serves: page_lens, groups, issues
    notes,             \* the notes of the merge request, in listing order
    page,              \* get_code_repositories: page
    repos,             \* get_code_repositories: repos
    repo_id,           \* get_high_and_critical_issues: repo_id
    issue_groups,      \* get_high_and_critical_issues: issue_groups
    futures,           \* export_issue_details_wrapper: futures
    collected,         \* how many futures the loop over futures has consumed
    results,           \* export_issue_details_wrapper: results
    merged_issues,     \* get_high_and_critical_issues: merged_issues
    high_and_critical, \* get_high_and_critical_issues: high_and_critical_issues
    aikido_table,      \* main: aikido_table
    message,           \* main: message
    note_id,           \* add_note_to_mr: note_id
    returned,          \* what add_note_to_mr returned: "None", "json", "" before
    aikido_reqs,       \* the requests this process sent to the Aikido API
    gitlab_reqs,       \* the requests this process sent to GitLab, in order
    history            \* one summary per finished process

fetchVars == <<page, repos, repo_id, issue_groups, futures, collected, results>>

tableVars == <<merged_issues, high_and_critical, aikido_table, message>>

serverVars == <<args, aikido>>

vars == <<pc, run, exit_code, raised, args, aikido, notes, page, repos, repo_id,
          issue_groups, futures, collected, results, merged_issues,
          high_and_critical, aikido_table, message, note_id, returned,
          aikido_reqs, gitlab_reqs, history>>

\* failed: a request got a status other than 200, or the repository was not
\* found.  reordered: a detail request completed before one submitted earlier.
NoAikidoReqs ==
    [token |-> 0, pages |-> <<>>, groups |-> 0, details |-> {}, failed |-> FALSE,
     reordered |-> FALSE]

MarkerCount(ns) == Cardinality({i \in 1..Len(ns) : HasMarker(ns[i].body)})

\* What a finished process leaves in history.
Summary(code, why, reqs, before, after) ==
    [exit_code |-> code, raised |-> why,
     reqs |-> [i \in 1..Len(reqs) |->
                  [method |-> reqs[i].method, status |-> reqs[i].status,
                   note |-> reqs[i].note]],
     before |-> before, after |-> after]

\* The process ends with exit code code.
Exit(code, why, reqs, after) ==
    /\ pc' = "exited"
    /\ exit_code' = code
    /\ raised' = why
    /\ history' = Append(history, Summary(code, why, reqs, MarkerCount(notes), after))

(***************************************************************************)
(* main, up to the call of generate_issue_table.                           *)
(***************************************************************************)
\* The CI job starts the script: a new process, on the same merge request.
Main ==
    /\ pc \in {"idle", "exited"}
    /\ run < MaxRuns
    /\ run' = run + 1
    /\ pc' = "get_oauth_token"
    /\ exit_code' = -1
    /\ raised' = "none"
    /\ page' = 0
    /\ repos' = <<>>
    /\ repo_id' = 0
    /\ issue_groups' = <<>>
    /\ futures' = <<>>
    /\ collected' = 0
    /\ results' = <<>>
    /\ merged_issues' = <<>>
    /\ high_and_critical' = <<>>
    /\ aikido_table' = <<>>
    /\ message' = <<>>
    /\ note_id' = 0
    /\ returned' = ""
    /\ aikido_reqs' = NoAikidoReqs
    /\ gitlab_reqs' = <<>>
    /\ UNCHANGED <<serverVars, notes, history>>

\* An Exception inside get_high_and_critical_issues: its handler calls
\* exit(1), which raises SystemExit through generate_issue_table into main.
\* main's handler takes it only if it catches SystemExit.
FetchFails(why) ==
    IF MainCatches("SystemExit")
    THEN /\ pc' = "mr_already_has_note"
         /\ raised' = why
         /\ aikido_table' = Placeholder
         /\ message' = ComposeMessage(Placeholder)
         /\ UNCHANGED <<exit_code, history, merged_issues, high_and_critical>>
    ELSE /\ Exit(1, why, gitlab_reqs, MarkerCount(notes))
         /\ UNCHANGED tableVars

\* get_oauth_token: one POST to the token endpoint.
GetOauthToken ==
    /\ pc = "get_oauth_token"
    /\ \E status \in {200, 401} :
          /\ aikido_reqs' = [aikido_reqs EXCEPT !.token = @ + 1,
                                                !.failed = @ \/ status # 200]
          /\ IF status = 200
             THEN /\ pc' = "get_code_repositories"
                  /\ UNCHANGED <<exit_code, raised, history, tableVars>>
             ELSE FetchFails("token")
    /\ UNCHANGED <<run, returned, serverVars, notes, fetchVars, note_id, gitlab_reqs>>

\* get_code_repositories: one pass of the while loop, one GET of a page.
GetCodeRepositories ==
    /\ pc = "get_code_repositories"
    /\ \E status \in {200, 500} :
          /\ aikido_reqs' = [aikido_reqs EXCEPT !.pages = Append(@, page),
                                                !.failed = @ \/ status # 200]
          /\ IF status = 200
             THEN LET json == ServerPage(aikido.page_lens, page)
                  IN  /\ repos' = AccumulateRepos(repos, json)
                      /\ IF IsLastPage(json)
                         THEN pc' = "get_repo_id" /\ page' = page
                         ELSE pc' = pc /\ page' = page + 1
                      /\ UNCHANGED <<exit_code, raised, history, tableVars>>
             ELSE /\ repos' = <<>>
                  /\ page' = page
                  /\ FetchFails("repos")
    /\ UNCHANGED <<run, returned, serverVars, notes, repo_id, issue_groups, futures, collected,
                   results, note_id, gitlab_reqs>>

\* get_repo_id on the listing.
GetRepoId ==
    /\ pc = "get_repo_id"
    /\ repo_id' = GetRepoIdOf(repos, args.repo_name)
    /\ aikido_reqs' = [aikido_reqs EXCEPT !.failed = @ \/ repo_id' = 0]
    /\ IF repo_id' # 0
       THEN /\ pc' = "get_open_issue_groups"
            /\ UNCHANGED <<exit_code, raised, history, tableVars>>
       ELSE FetchFails("repo_id")
    /\ UNCHANGED <<run, returned, serverVars, notes, page, repos, issue_groups, futures,
                   collected, results, note_id, gitlab_reqs>>

\* get_open_issue_groups, get_issue_group_ids and the executor.submit of one
\* export_issue_details per id.
GetOpenIssueGroups ==
    /\ pc = "get_open_issue_groups"
    /\ \E status \in {200, 500} :
          /\ aikido_reqs' = [aikido_reqs EXCEPT !.groups = @ + 1,
                                                !.failed = @ \/ status # 200]
          /\ IF status = 200
             THEN /\ issue_groups' = aikido.groups
                  /\ futures' = [i \in 1..Len(aikido.groups) |->
                                    [id |-> GetIssueGroupIds(aikido.groups)[i],
                                     state |-> "pending", result |-> <<>>]]
                  /\ pc' = "collect"
                  /\ UNCHANGED <<exit_code, raised, history, tableVars>>
             ELSE /\ UNCHANGED <<issue_groups, futures>>
                  /\ FetchFails("groups")
    /\ UNCHANGED <<run, returned, serverVars, notes, page, repos, repo_id, collected, results,
                   note_id, gitlab_reqs>>

\* A pool thread runs export_issue_details for future i: one GET scoped to
\* the future's group id, whose outcome is stored in the future.
Worker(i) ==
    /\ pc \in {"collect", "shutdown"}
    /\ i \in 1..Len(futures)
    /\ futures[i].state = "pending"
    /\ \E status \in {200, 500} :
          /\ aikido_reqs' =
                [aikido_reqs EXCEPT !.details = @ \cup {futures[i].id},
                                    !.failed = @ \/ status # 200,
                                    !.reordered = @ \/ \E j \in 1..(i - 1) :
                                                          futures[j].state = "pending"]
          /\ futures' = [futures EXCEPT ![i] =
                IF status = 200
                THEN [@ EXCEPT !.state = "done",
                               !.result = ExportIssueDetails(futures[i].id,
                                                             aikido.issues[futures[i].id])]
                ELSE [@ EXCEPT !.state = "failed"]]
    /\ UNCHANGED <<pc, run, returned, exit_code, raised, serverVars, notes, page, repos, repo_id,
                   issue_groups, collected, results, tableVars, note_id, gitlab_reqs,
                   history>>

\* The coordinating thread: results.update(future.result()) for the next
\* future, once that future is done.
CollectResult ==
    /\ pc = "collect"
    /\ collected < Len(futures)
    /\ futures[collected + 1].state = "done"
    /\ results' = DictUpdateAll(results, futures[collected + 1].result, 1)
    /\ collected' = collected + 1
    /\ UNCHANGED <<pc, run, returned, exit_code, raised, serverVars, notes, page, repos, repo_id,
                   issue_groups, futures, tableVars, note_id, aikido_reqs, gitlab_reqs,
                   history>>

\* future.result() re-raises the worker's exception: the with block is left
\* and the executor waits for the threads still running.
CollectRaise ==
    /\ pc = "collect"
    /\ collected < Len(futures)
    /\ futures[collected + 1].state = "failed"
    /\ pc' = "shutdown"
    /\ UNCHANGED <<run, returned, exit_code, raised, serverVars, notes, fetchVars, tableVars,
                   note_id, aikido_reqs, gitlab_reqs, history>>

\* executor.shutdown(wait=True) returns and the exception reaches the handler.
Shutdown ==
    /\ pc = "shutdown"
    /\ \A i \in 1..Len(futures) : futures[i].state # "pending"
    /\ futures' = <<>>
    /\ FetchFails("details")
    /\ UNCHANGED <<run, returned, serverVars, notes, page, repos, repo_id, issue_groups,
                   collected, results, note_id, aikido_reqs, gitlab_reqs>>

\* Every future is consumed: export_issue_details_wrapper returns results
\* and its executor and futures are gone.
CollectReturn ==
    /\ pc = "collect"
    /\ collected = Len(futures)
    /\ pc' = "merge"
    /\ futures' = <<>>
    /\ UNCHANGED <<run, returned, exit_code, raised, serverVars, notes, page, repos,
                   repo_id, issue_groups, collected, results, tableVars, note_id,
                   aikido_reqs, gitlab_reqs, history>>

\* merge_issue_details_with_issue_groups(issue_groups, issue_details)
Merge ==
    /\ pc = "merge"
    /\ merged_issues' = MergeIssueDetailsWithIssueGroups(issue_groups, results)
    /\ pc' = "filter"
    /\ UNCHANGED <<run, returned, exit_code, raised, serverVars, notes, fetchVars,
                   high_and_critical, aikido_table, message, note_id, aikido_reqs,
                   gitlab_reqs, history>>

\* filter_high_and_critical(merged_issues)
Filter ==
    /\ pc = "filter"
    /\ high_and_critical' = FilterHighAndCritical(merged_issues)
    /\ pc' = "generate_table"
    /\ UNCHANGED <<run, returned, exit_code, raised, serverVars, notes, fetchVars, merged_issues,
                   aikido_table, message, note_id, aikido_reqs, gitlab_reqs, history>>

\* generate_table, the handler of main around generate_issue_table, and the
\* composition of the message.  An exception main does not catch ends the
\* process with a traceback and exit code 1.
Render ==
    /\ pc = "generate_table"
    /\ LET table == GenerateTable(high_and_critical, repo_id)
       IN  IF ~table.raised
           THEN /\ aikido_table' = table.value
                /\ message' = ComposeMessage(table.value)
                /\ pc' = "mr_already_has_note"
                /\ UNCHANGED <<exit_code, raised, history>>
           ELSE IF MainCatches("TypeError")
           THEN /\ aikido_table' = Placeholder
                /\ message' = ComposeMessage(Placeholder)
                /\ raised' = "render"
                /\ pc' = "mr_already_has_note"
                /\ UNCHANGED <<exit_code, history>>
           ELSE /\ Exit(1, "render", gitlab_reqs, MarkerCount(notes))
                /\ UNCHANGED <<aikido_table, message>>
    /\ UNCHANGED <<run, returned, serverVars, notes, fetchVars, merged_issues, high_and_critical,
                   note_id, aikido_reqs, gitlab_reqs>>

(***************************************************************************)
(* src/lib/git.py: add_note_to_mr, mr_already_has_note, update_note.       *)
(* A request is logged with the status it got; status 0 is a call that     *)
(* raised MissingSchema before anything was sent.  note is the id the      *)
(* request names (PUT) or the id of the note it created (POST, 201).       *)
(***************************************************************************)
Request(method, url, access_token, status, note) ==
    [method |-> method, url |-> url, token |-> PrivateToken(access_token),
     status |-> status, note |-> note]

\* The id GitLab gives a new note.
NewNoteId(ns) ==
    IF ns = <<>> THEN 1
    ELSE 1 + (CHOOSE m \in {ns[i].id : i \in 1..Len(ns)} :
                 \A i \in 1..Len(ns) : ns[i].id <= m)

\* GitLab stores the new body of note id.
PutNote(ns, id, body) ==
    [i \in 1..Len(ns) |-> IF ns[i].id = id THEN [ns[i] EXCEPT !.body = body] ELSE ns[i]]

\* The branch add_note_to_mr takes on the value of note_id.
WriteBranch(id) == IF Truthy(id) THEN "update_note" ELSE "post_note"

\* mr_already_has_note: the GET of the notes and the search for the marker.
MrAlreadyHasNote ==
    /\ pc = "mr_already_has_note"
    /\ LET url == ListUrl(args.gitlab_url, args.repo_id, args.mr_iid)
       IN  IF ~HasScheme(url)
           THEN /\ gitlab_reqs' = Append(gitlab_reqs,
                                         Request("GET", url, args.gitlab_token, 0, 0))
                /\ Exit(1, "schema", gitlab_reqs', MarkerCount(notes))
                /\ UNCHANGED note_id
           ELSE \E status \in {200, 500} :
                /\ gitlab_reqs' = Append(gitlab_reqs,
                                         Request("GET", url, args.gitlab_token, status, 0))
                /\ note_id' = IF status = 200 THEN FindNote(notes) ELSE 0
                /\ pc' = WriteBranch(note_id')
                /\ UNCHANGED <<exit_code, raised, history>>
    /\ UNCHANGED <<run, returned, serverVars, notes, fetchVars, tableVars, aikido_reqs>>

\* update_note and the return of add_note_to_mr and main: exit code 0
\* whatever the status of the PUT.
UpdateNote ==
    /\ pc = "update_note"
    /\ LET url == UpdateUrl(args.gitlab_url, args.repo_id, args.mr_iid, note_id)
       IN  IF ~HasScheme(url)
           THEN /\ gitlab_reqs' = Append(gitlab_reqs,
                                         Request("PUT", url, args.gitlab_token, 0, note_id))
                /\ notes' = notes
                /\ returned' = ""
                /\ Exit(1, "schema", gitlab_reqs', MarkerCount(notes))
           ELSE \E status \in {200, 403} :
                /\ returned' = "None"
                /\ gitlab_reqs' = Append(gitlab_reqs,
                                         Request("PUT", url, args.gitlab_token, status, note_id))
                /\ notes' = IF status = 200 THEN PutNote(notes, note_id, message) ELSE notes
                /\ Exit(0, raised, gitlab_reqs', MarkerCount(notes'))
    /\ UNCHANGED <<run, serverVars, fetchVars, tableVars, note_id, aikido_reqs>>

\* The POST of add_note_to_mr and the return of main: exit code 0 whatever
\* the status of the POST.
PostNote ==
    /\ pc = "post_note"
    /\ LET url == CreateUrl(args.gitlab_url, args.repo_id, args.mr_iid)
       IN  IF ~HasScheme(url)
           THEN /\ gitlab_reqs' = Append(gitlab_reqs,
                                         Request("POST", url, args.gitlab_token, 0, 0))
                /\ notes' = notes
                /\ returned' = ""
                /\ Exit(1, "schema", gitlab_reqs', MarkerCount(notes))
           ELSE \E status \in {201, 500} :
                /\ returned' = IF status = 201 THEN "json" ELSE "None"
                /\ gitlab_reqs' = Append(gitlab_reqs,
                                         Request("POST", url, args.gitlab_token, status,
                                                 IF status = 201 THEN NewNoteId(notes) ELSE 0))
                /\ notes' = IF status = 201
                            THEN Append(notes, [id |-> NewNoteId(notes), body |-> message])
                            ELSE notes
                /\ Exit(0, raised, gitlab_reqs', MarkerCount(notes'))
    /\ UNCHANGED <<run, serverVars, fetchVars, tableVars, note_id, aikido_reqs>>

(***************************************************************************)
(* Inputs.                                                                 *)
(***************************************************************************)
BoundedSeq(S, n) == UNION {[1..k -> S] : k \in 0..n}

GitlabUrls == {<<HttpsPrefix, "gitlab.example.com">>, <<"gitlab.example.com">>}

MkArgs(gitlab_url, gitlab_token) ==
    [gitlab_url |-> gitlab_url, gitlab_token |-> gitlab_token, repo_id |-> 5,
     mr_iid |-> 7, repo_name |-> <<"proj">>]

\* Bodies of notes found on a merge request: a reviewer's comment, the
\* comment of an earlier run, a reply that quotes the marker.
NoteBodies ==
    {<<"LGTM">>, ComposeMessage(NoIssuesBanner), <<"> # ", Marker, "\n\nis this right?">>}

\* Listings of up to n notes, with ids ascending or descending.
NoteLists(n) ==
    UNION {{[i \in 1..Len(bs) |-> [id |-> IF up THEN i ELSE Len(bs) + 1 - i,
                                   body |-> bs[i]]] : up \in BOOLEAN}
           : bs \in BoundedSeq(NoteBodies, n)}

\* The issue groups the pipeline is run on, by kind, with their issues.
GroupOfKind(kind, id) ==
    CASE kind = "files" -> MkGroup(id, Sast, <<"SQL injection">>, <<"critical">>)
      [] kind = "low"   -> MkGroup(id, Sast, <<"Weak hash">>, <<"medium">>)
      [] kind = "bare"  -> MkGroup(id, <<"c", "l", "o", "u", "d">>, Absent, <<"high">>)

IssuesOfKind(kind, id) ==
    CASE kind = "files" -> <<FileIssue(id, 1), PackageIssue(id), FileIssue(id, 2)>>
      [] kind = "low"   -> <<PackageIssue(id)>>
      [] kind = "bare"  -> <<BareIssue(id)>>

ServedGroups(kinds) ==
    [groups |-> [i \in 1..Len(kinds) |-> GroupOfKind(kinds[i], i)],
     issues |-> [i \in 1..Len(kinds) |-> IssuesOfKind(kinds[i], i)]]

MkAikido(page_lens, kinds) ==
    [page_lens |-> page_lens, groups |-> ServedGroups(kinds).groups,
     issues |-> ServedGroups(kinds).issues]

\* k full pages and a last page of n repositories.
FullPages(k, n) == [i \in 1..(k + 1) |-> IF i <= k THEN ResultsPerPage ELSE n]

\* What the Aikido API serves in the runs of the whole script.
Scenarios ==
    {MkAikido(<<3>>, kinds) : kinds \in BoundedSeq({"files", "low", "bare"}, MaxGroups)}
        \cup {MkAikido(<<1>>, <<>>)}
        \cup {MkAikido(FullPages(k, 2), <<"files">>) : k \in 1..(MaxPages - 1)}

NoAikido == MkAikido(<<>>, <<>>)

\* The state of a process that has not started (or of the caller of one
\* function, before the call).
Fresh ==
    /\ exit_code = -1
    /\ raised = "none"
    /\ page = 0
    /\ repos = <<>>
    /\ repo_id = 0
    /\ issue_groups = <<>>
    /\ futures = <<>>
    /\ collected = 0
    /\ results = <<>>
    /\ merged_issues = <<>>
    /\ high_and_critical = <<>>
    /\ aikido_table = <<>>
    /\ message = <<>>
    /\ note_id = 0
    /\ returned = ""
    /\ gitlab_reqs = <<>>
    /\ history = <<>>

(***************************************************************************)
(* The whole script, run up to MaxRuns times on one merge request.         *)
(***************************************************************************)
Init ==
    /\ pc = "idle"
    /\ run = 0
    /\ args \in {MkArgs(u, <<"t", "k">>) : u \in GitlabUrls}
    /\ aikido \in Scenarios
    /\ notes \in NoteLists(1)
    /\ aikido_reqs = NoAikidoReqs
    /\ Fresh

Next ==
    \/ Main
    \/ GetOauthToken
    \/ GetCodeRepositories
    \/ GetRepoId
    \/ GetOpenIssueGroups
    \/ \E i \in 1..MaxGroups : Worker(i)
    \/ CollectResult
    \/ CollectRaise
    \/ Shutdown
    \/ CollectReturn
    \/ Merge
    \/ Filter
    \/ Render
    \/ MrAlreadyHasNote
    \/ UpdateNote
    \/ PostNote

Spec == Init /\ [][Next]_vars

(***************************************************************************)
(* get_code_repositories and get_repo_id on every listing of up to         *)
(* MaxPages pages: the process has its token and enters the function.      *)
(***************************************************************************)
InitRepos ==
    /\ pc = "get_code_repositories"
    /\ run = 1
    /\ args = MkArgs(<<HttpsPrefix, "gitlab.example.com">>, <<"t", "k">>)
    /\ aikido \in {MkAikido(lens, <<>>) : lens \in BoundedSeq(0..ResultsPerPage, MaxPages)}
    /\ notes = <<>>
    /\ aikido_reqs = [NoAikidoReqs EXCEPT !.token = 1]
    /\ Fresh

NextRepos ==
    \/ GetCodeRepositories
    \/ GetRepoId

SpecRepos == InitRepos /\ [][NextRepos]_vars

(***************************************************************************)
(* merge_issue_details_with_issue_groups and filter_high_and_critical on   *)
(* bounded inputs: groups of every severity, details for any of the ids    *)
(* and for an id that has no group.                                        *)
(***************************************************************************)
Severities ==
    {<<"critical">>, <<"high">>, <<"medium">>, <<"low">>, <<"info">>, <<"High">>, Absent}

GroupLists ==
    {[i \in 1..Len(sevs) |-> MkGroup(i, Sast, <<"finding">>, sevs[i])] :
        sevs \in BoundedSeq(Severities, MaxGroups)}

\* The details of the ids in ids, in ascending or descending order of id.
DetailsOf(ids, up) ==
    LET n == Cardinality(ids)
        asc == [i \in 1..n |-> CHOOSE x \in ids : Cardinality({y \in ids : y < x}) = i - 1]
    IN  [i \in 1..n |->
            LET id == IF up THEN asc[i] ELSE asc[n + 1 - i]
            IN  [key |-> id, value |-> <<PackageIssue(id)>>]]

DetailDicts == {DetailsOf(ids, up) : ids \in SUBSET (1..(MaxGroups + 1)), up \in BOOLEAN}

InitFilter ==
    /\ pc = "merge"
    /\ run = 1
    /\ args = MkArgs(<<HttpsPrefix, "gitlab.example.com">>, <<"t", "k">>)
    /\ aikido = NoAikido
    /\ notes = <<>>
    /\ aikido_reqs = NoAikidoReqs
    /\ exit_code = -1
    /\ raised = "none"
    /\ page = 0
    /\ repos = <<>>
    /\ repo_id = 2
    /\ issue_groups \in GroupLists
    /\ futures = <<>>
    /\ collected = 0
    /\ results \in DetailDicts
    /\ merged_issues = <<>>
    /\ high_and_critical = <<>>
    /\ aikido_table = <<>>
    /\ message = <<>>
    /\ note_id = 0
    /\ returned = ""
    /\ gitlab_reqs = <<>>
    /\ history = <<>>

NextFilter ==
    \/ Merge
    \/ Filter

SpecFilter == InitFilter /\ [][NextFilter]_vars

(***************************************************************************)
(* generate_table on bounded inputs: what filter_high_and_critical can     *)
(* return.  The first group carries every list of up to MaxIssues issues.  *)
(***************************************************************************)
IssueOfKind(kind, g, k) ==
    CASE kind = "file"    -> FileIssue(g, k)
      [] kind = "package" -> PackageIssue(g)
      [] kind = "docker"  -> DockerIssue(g)
      [] kind = "bare"    -> BareIssue(g)

Types == {LeakedSecret, Sast, Absent}

WithIssues(group, issue_list) ==
    [group EXCEPT !.has_issue_list = TRUE, !.issue_list = issue_list]

FirstGroups ==
    {WithIssues(MkGroup(1, type, sd[2], sd[1]),
                [k \in 1..Len(kinds) |-> IssueOfKind(kinds[k], 1, k)]) :
        type \in Types,
        sd \in {<<(<<"critical">>), (<<"SQL injection">>)>>, <<(<<"high">>), (<<>>)>>},
        kinds \in BoundedSeq({"file", "package", "docker", "bare"}, MaxIssues)}

OtherGroups(types) ==
    [i \in 1..Len(types) |->
        WithIssues(MkGroup(i + 1, types[i], <<"XSS">>, <<"high">>), <<FileIssue(i + 1, 1)>>)]

AsDict(groups) == [i \in 1..Len(groups) |-> [key |-> groups[i].id, value |-> groups[i]]]

TableInputs ==
    {<<>>} \cup {AsDict(<<first>> \o OtherGroups(types)) :
                    first \in FirstGroups, types \in BoundedSeq(Types, MaxGroups - 1)}

InitTable ==
    /\ pc = "generate_table"
    /\ run = 1
    /\ args = MkArgs(<<HttpsPrefix, "gitlab.example.com">>, <<"t", "k">>)
    /\ aikido = NoAikido
    /\ notes = <<>>
    /\ aikido_reqs = NoAikidoReqs
    /\ exit_code = -1
    /\ raised = "none"
    /\ page = 0
    /\ repos = <<>>
    /\ repo_id = 2
    /\ issue_groups = <<>>
    /\ futures = <<>>
    /\ collected = 0
    /\ results = <<>>
    /\ merged_issues = <<>>
    /\ high_and_critical \in TableInputs
    /\ aikido_table = <<>>
    /\ message = <<>>
    /\ note_id = 0
    /\ returned = ""
    /\ gitlab_reqs = <<>>
    /\ history = <<>>

NextTable == Render

SpecTable == InitTable /\ [][NextTable]_vars

(***************************************************************************)
(* add_note_to_mr called once, on every token of up to MaxTokenLen         *)
(* characters, both forms of gitlab_url and every listing of up to         *)
(* MaxNotes notes.                                                         *)
(***************************************************************************)
Tokens == BoundedSeq({"t", ":"}, MaxTokenLen) \ {<<>>}

InitNote ==
    /\ pc = "mr_already_has_note"
    /\ run = 1
    /\ args \in {MkArgs(u, t) : u \in GitlabUrls, t \in Tokens}
    /\ aikido = NoAikido
    /\ notes \in NoteLists(MaxNotes)
    /\ aikido_reqs = NoAikidoReqs
    /\ exit_code = -1
    /\ raised = "render"
    /\ page = 0
    /\ repos = <<>>
    /\ repo_id = 2
    /\ issue_groups = <<>>
    /\ futures = <<>>
    /\ collected = 0
    /\ results = <<>>
    /\ merged_issues = <<>>
    /\ high_and_critical = <<>>
    /\ aikido_table = Placeholder
    /\ message = ComposeMessage(Placeholder)
    /\ note_id = 0
    /\ returned = ""
    /\ gitlab_reqs = <<>>
    /\ history = <<>>

NextNote ==
    \/ MrAlreadyHasNote
    \/ UpdateNote
    \/ PostNote

SpecNote == InitNote /\ [][NextNote]_vars

(***************************************************************************)
(* Properties.                                                             *)
(***************************************************************************)
FetchStages == {"token", "repos", "repo_id", "groups", "details"}

CommentStages == {"mr_already_has_note", "update_note", "post_note"}

Succeeded(request) ==
    \/ request.method \in {"GET", "PUT"} /\ request.status = 200
    \/ request.method = "POST" /\ request.status = 201

\* A finished run in which every GitLab request got its success status.
CleanRun(h) == h.exit_code = 0 /\ \A i \in 1..Len(h.reqs) : Succeeded(h.reqs[i])

Methods(reqs) == [i \in 1..Len(reqs) |-> reqs[i].method]

\* C1: of two runs in sequence whose requests all succeed, the first on a
\* merge request with no marker comment, the first sends a POST and no PUT,
\* the second a PUT to the note the first created and no POST, and after
\* each of them the merge request holds exactly one comment with the marker.
C1_UpsertIdempotent ==
    \A i \in 1..(Len(history) - 1) :
        (CleanRun(history[i]) /\ CleanRun(history[i + 1]) /\ history[i].before = 0)
        => /\ Methods(history[i].reqs) = <<"GET", "POST">>
           /\ Methods(history[i + 1].reqs) = <<"GET", "PUT">>
           /\ history[i + 1].reqs[2].note = history[i].reqs[2].note
           /\ history[i].after = 1
           /\ history[i + 1].after = 1

\* C1, witness: two clean runs on a merge request that had no marker
\* comment have finished, and the second one updated.
C1_TwoCleanRuns ==
    /\ Len(history) = 2
    /\ CleanRun(history[1])
    /\ CleanRun(history[2])
    /\ history[1].before = 0
    /\ history[2].reqs[2].method = "PUT"
    /\ MarkerCount(notes) = 1

C7_AnyExceptionDegrades ==
    (pc = "exited" /\ raised \in FetchStages \cup {"render"})
    => /\ exit_code = 0
       /\ gitlab_reqs # <<>>
       /\ message = ComposeMessage(Placeholder)

\* C7, amended: an exception raised by generate_table is caught by main,
\* which puts the placeholder in place of the table and calls add_note_to_mr
\* once with a body that holds the marker; the run is not aborted.  The
\* body at the comment stage holds a table, the no-issues banner or the
\* placeholder, and the placeholder only after such an exception.
C7_RenderExceptionDegrades ==
    /\ raised = "render"
       => /\ pc \in CommentStages \cup {"exited"}
          /\ exit_code \in {-1, 0}
          /\ aikido_table = Placeholder
          /\ pc = "exited" => gitlab_reqs # <<>>
    /\ pc \in CommentStages
       => /\ GenerateTable(high_and_critical, repo_id).raised => raised = "render"
          /\ aikido_table = Placeholder <=> raised = "render"
    /\ (pc \in CommentStages \/ gitlab_reqs # <<>>)
       => /\ message = ComposeMessage(aikido_table)
          /\ HasMarker(message)
          /\ \/ aikido_table = Placeholder
             \/ aikido_table = NoIssuesBanner
             \/ In(TableHeader, aikido_table)
          /\ Cardinality({i \in 1..Len(gitlab_reqs) : gitlab_reqs[i].method = "GET"}) <= 1

\* C7, witness: a run whose rendering raised has posted the placeholder.
C7_PlaceholderPosted ==
    /\ pc = "exited"
    /\ raised = "render"
    /\ exit_code = 0
    /\ Methods(gitlab_reqs) = <<"GET", "POST">>
    /\ gitlab_reqs[2].status = 201
    /\ \E i \in 1..Len(notes) : notes[i].body = ComposeMessage(Placeholder)

\* C9, the state part: results maps the id of each consumed future to what
\* the request scoped to that id returned, and after the merge every fetched
\* group holds the issue_list of the request scoped to its own id.
C9_OwnIssuesOnly ==
    /\ \A k \in 1..Len(results) : results[k].value = aikido.issues[results[k].key]
    /\ pc = "collect"
       => DictKeys(results) = {futures[i].id : i \in 1..collected}
    /\ pc \in {"filter", "generate_table"}
       => /\ DictKeys(merged_issues) = {issue_groups[i].id : i \in 1..Len(issue_groups)}
          /\ \A k \in 1..Len(merged_issues) :
                /\ merged_issues[k].value.has_issue_list
                /\ merged_issues[k].value.issue_list = aikido.issues[merged_issues[k].key]

\* C9, the step part: a step of a worker leaves results alone; results is
\* written by the coordinating thread as it consumes the next future (or
\* reset by the start of a process).
C9_CoordinatorWrites ==
    (results' # results)
    => \/ pc = "collect" /\ collected' = collected + 1 /\ futures' = futures
       \/ pc' = "get_oauth_token"

\* C9: with the detail requests completing in any order, no issue_list
\* holds issues of another group, every fetched group gets its issue_list,
\* and only the coordinating thread writes results.
C9_NoCrossGroupLeakage == []C9_OwnIssuesOnly /\ [][C9_CoordinatorWrites]_vars

\* C9, witness: two groups are merged after the second detail request
\* completed before the first.
C9_MergedOutOfOrder ==
    /\ pc = "filter"
    /\ aikido_reqs.reordered
    /\ Len(merged_issues) = 2
    /\ \A k \in 1..2 : merged_issues[k].value.has_issue_list

\* The in-order concatenation of the bodies of the pages in ps.
RECURSIVE ConcatPages(_, _, _)
ConcatPages(page_lens, ps, i) ==
    IF i > Len(ps) THEN <<>>
    ELSE ServerPage(page_lens, ps[i]) \o ConcatPages(page_lens, ps, i + 1)

PageIsShort(p) == Len(ServerPage(aikido.page_lens, p)) < ResultsPerPage

\* C3: get_code_repositories requests pages 0, 1, 2, ... in order, never a
\* page after one that held fewer than 10 items; what it has accumulated,
\* and what it returns once a short page arrived, is the concatenation of
\* the pages fetched; a status other than 200 ends the process with nothing
\* returned.
C3_Pagination ==
    LET req == aikido_reqs.pages
    IN  /\ \A i \in 1..Len(req) : req[i] = i - 1
        /\ \A i \in 1..(Len(req) - 1) : ~PageIsShort(req[i])
        /\ pc = "get_code_repositories"
           => page = Len(req) /\ repos = ConcatPages(aikido.page_lens, req, 1)
        /\ (pc \in {"get_repo_id", "get_open_issue_groups"} \/ raised = "repo_id")
           => /\ repos = ConcatPages(aikido.page_lens, req, 1)
              /\ req # <<>>
              /\ PageIsShort(req[Len(req)])
        /\ raised = "repos"
           => pc = "exited" /\ exit_code = 1 /\ repos = <<>> /\ repo_id = 0

\* C3, witness: the function has returned the items of a full page and of
\* the short page after it.
C3_TwoPagesReturned ==
    /\ pc = "get_repo_id"
    /\ aikido_reqs.pages = <<0, 1>>
    /\ Len(repos) > ResultsPerPage

\* The rows of the table that link to group id.
RowsOf(id) == Count(<<"?sidebarIssue=", Str(id), RowEnd>>, aikido_table)

\* C4 as stated: the rendered table counts every surviving group in its
\* header line, holds no row for a group of type "leaked_secret" and one row
\* for every other group.
C4_LeakedSecretHasNoRow ==
    (pc = "mr_already_has_note" /\ raised = "none" /\ high_and_critical # <<>>)
    => /\ In(CountLine(Len(high_and_critical)), aikido_table)
       /\ \A k \in 1..Len(high_and_critical) :
             RowsOf(high_and_critical[k].key) =
                 IF high_and_critical[k].value.type = LeakedSecret THEN 0 ELSE 1

\* The table generate_table renders: its header line counts the surviving
\* groups and every one of them, "leaked_secret" or not, has one row.
EveryGroupHasARow ==
    (pc = "mr_already_has_note" /\ raised = "none" /\ high_and_critical # <<>>)
    => /\ In(CountLine(Len(high_and_critical)), aikido_table)
       /\ \A k \in 1..Len(high_and_critical) : RowsOf(high_and_critical[k].key) = 1

\* The substring after the first ":" of a token, the token if it has none.
AfterFirstColon(token) ==
    LET colons == {i \in 1..Len(token) : token[i] = ":"}
    IN  IF colons = {} THEN token
        ELSE SubSeq(token, 1 + (CHOOSE i \in colons : \A j \in colons : i <= j), Len(token))

\* C5 as stated: every request sent by add_note_to_mr, mr_already_has_note
\* and update_note carries in Private_Token the whole token, or all of what
\* follows its first ":".
C5_TokenAfterFirstColon ==
    \A i \in 1..Len(gitlab_reqs) :
        gitlab_reqs[i].status # 0
        => gitlab_reqs[i].token = AfterFirstColon(args.gitlab_token)

\* The listing holds a note with the marker, and note i is the first.
FirstWithMarker(ns, i) ==
    /\ i \in 1..Len(ns)
    /\ HasMarker(ns[i].body)
    /\ \A j \in 1..(i - 1) : ~HasMarker(ns[j].body)

\* C6: a call of add_note_to_mr whose listing got 200 sends one write: a
\* PUT to the first note with the marker when there is one, and no POST; a
\* POST when there is none, and no PUT.  Whatever the status of the write,
\* the process ends with exit code 0, and a failed write returns None.
C6_OneWritePerCall ==
    /\ (pc \in {"update_note", "post_note"} /\ gitlab_reqs[1].status = 200)
       => IF \E i \in 1..Len(notes) : HasMarker(notes[i].body)
          THEN pc = "update_note" /\ \E i \in 1..Len(notes) :
                                        FirstWithMarker(notes, i) /\ notes[i].id = note_id
          ELSE pc = "post_note"
    /\ (pc = "exited" /\ gitlab_reqs # <<>> /\ gitlab_reqs[1].status = 200)
       => /\ Len(gitlab_reqs) = 2
          /\ exit_code = 0
          /\ IF history[Len(history)].before > 0
             THEN /\ gitlab_reqs[2].method = "PUT"
                  /\ \E i \in 1..Len(notes) :
                        /\ notes[i].id = gitlab_reqs[2].note
                        /\ \A j \in 1..(i - 1) : ~HasMarker(notes[j].body)
             ELSE gitlab_reqs[2].method = "POST"
          /\ ~Succeeded(gitlab_reqs[2]) => returned = "None"

\* C6, witness: of two notes with the marker the call tried to update one,
\* got 403 and ended with exit code 0.
C6_FailedUpdateIsNotFatal ==
    /\ pc = "exited"
    /\ Methods(gitlab_reqs) = <<"GET", "PUT">>
    /\ gitlab_reqs[1].status = 200
    /\ gitlab_reqs[2].status = 403
    /\ exit_code = 0
    /\ history[1].before = 2

\* C8: filter_high_and_critical keeps a merged group, under its id and
\* unchanged, exactly when its severity is "high" or "critical".
C8_FilterExact ==
    pc = "generate_table"
    => /\ \A k \in 1..Len(merged_issues) :
             merged_issues[k].value.severity \in {<<"high">>, <<"critical">>}
             <=> \E j \in 1..Len(high_and_critical) :
                    high_and_critical[j] = merged_issues[k]
       /\ \A j \in 1..Len(high_and_critical) :
             \E k \in 1..Len(merged_issues) : merged_issues[k] = high_and_critical[j]
       /\ Cardinality(DictKeys(high_and_critical)) = Len(high_and_critical)

\* C8, witness: the filter kept a group and dropped a medium one and the
\* defaulted record of a detail id that has no group.
C8_OrphanAndMediumDropped ==
    /\ pc = "generate_table"
    /\ high_and_critical # <<>>
    /\ \E k \in 1..Len(merged_issues) :
          /\ merged_issues[k].value = [EmptyGroup EXCEPT !.has_issue_list = TRUE,
                                          !.issue_list = <<PackageIssue(merged_issues[k].key)>>]
          /\ merged_issues[k].key \notin DictKeys(high_and_critical)
    /\ \E k \in 1..Len(merged_issues) :
          /\ merged_issues[k].value.severity = <<"medium">>
          /\ merged_issues[k].key \notin DictKeys(high_and_critical)

\* gitlab_url without its "https://", if it has one.
Host(gitlab_url) ==
    IF gitlab_url # <<>> /\ gitlab_url[1] = HttpsPrefix THEN Tail(gitlab_url) ELSE gitlab_url

\* C10 as stated: with or without "https://" in gitlab_url, the listing,
\* the update and the create are requests to the https URL of the instance.
C10_SameHttpsUrlForBothForms ==
    \A i \in 1..Len(gitlab_reqs) :
        /\ gitlab_reqs[i].status # 0
        /\ SubSeq(gitlab_reqs[i].url, 1, 1 + Len(Host(args.gitlab_url)))
               = <<HttpsPrefix>> \o Host(args.gitlab_url)

\* C11 as stated: whatever the runs so far, listings that got a non-200
\* included, the merge request holds at most one note with the marker, and
\* no run sent a POST while the merge request held such a note.
C11_AtMostOneMarkerNote ==
    /\ MarkerCount(notes) <= 1
    /\ \A k \in 1..Len(history) :
          \A i \in 1..Len(history[k].reqs) :
              (history[k].reqs[i].method = "POST" /\ history[k].reqs[i].status # 0)
              => history[k].before = 0

\* The rows of a rendered table: what lies between two row ends.
TableRows(table) == Split(table, RowEnd)

\* The tags of the "view more files" disclosure in one row: at most one of
\* each, and a closing one exactly when an opening one precedes it.
DisclosureWellFormed(row) ==
    LET opens == {i \in 1..Len(row) : row[i] = DetailsOpen}
        closes == {i \in 1..Len(row) : row[i] = DetailsClose}
    IN  /\ Cardinality(opens) <= 1
        /\ Cardinality(closes) <= 1
        /\ (closes # {}) <=> (opens # {})
        /\ \A o \in opens : \A c \in closes : o < c

\* C12 as stated: in every row of the table generate_table returns, the
\* file/location cell holds a closing </details> if and only if it holds
\* the opening "view more files" tag before it, and at most one of each.
C12_FileCellWellFormed ==
    (pc = "mr_already_has_note" /\ raised = "none")
    => \A r \in 1..Len(TableRows(aikido_table)) :
           DisclosureWellFormed(TableRows(aikido_table)[r])

=============================================================================
